---- MODULE Spec2Model ----
(***************************************************************************)
(* A state-machine model of the usb2snes client (src/src/lib.rs).          *)
(*                                                                         *)
(*   Spec         the facade after construction: get_memory calls, each    *)
(*                made of the drain (clear_read), the command write and    *)
(*                the payload read loop, against a device that queues      *)
(*                response bytes on the input endpoint.                    *)
(*   SpecResolve  get_end_points applied to descriptor trees.              *)
(*   SpecLocate   open_device applied to device lists.                     *)
(*   SpecCtor     new_from_vid_pid: open_device, the interrupt and bulk    *)
(*                resolutions and configure_endpoint, with the calls made  *)
(*                and the kernel drivers of the interfaces.                *)
(*                                                                         *)
(* A byte that the device sent is modelled by its position (1, 2, 3, ...)  *)
(* in the stream of bytes the device puts on the input endpoint; 0 is the  *)
(* zero byte a buffer is initialised with.  Byte buffers are kept          *)
(* run-length encoded: a run [v, n] stands for the n values v, v+1, ...,   *)
(* v+n-1, or for n zero bytes when v = 0.                                  *)
(* A u32 is the pair of its two 16-bit halves, so the whole 32-bit range   *)
(* is represented exactly.                                                 *)
(***************************************************************************)
EXTENDS Integers, Sequences, FiniteSets, TLC

VARIABLES
    \* ---- the facade and one get_memory call (Spec)
    pc,           \* position of the caller: idle, clear_read, write_bulk, read_loop, returned, panicked
    calls,        \* number of get_memory calls started on the facade
    endpoint_in,  \* Usb2snes.endpoint_in
    endpoint_out, \* Usb2snes.endpoint_out
    offset,       \* argument of the current call
    size,         \* argument of the current call
    command,      \* the local command buffer of the current call
    output,       \* the local read buffer of the current call
    result,       \* the local result vector of the current call
    fail_counts,  \* local of the read loop
    size_count,   \* local of the read loop (i32)
    ret,          \* what the current call returned: "none", "Ok" (with result) or "Err"
    \* ---- the device side of the input endpoint
    devNext,      \* stream bytes 1..devNext have been read by the host
    devEnd,       \* stream bytes 1..devEnd have been sent by the device
    reqEnd,       \* reqEnd[c]: value of devEnd after the device answered call c
    \* ---- what the transport saw during the current call
    drLens,       \* outcomes of the drain reads, in order (-1: failed)
    rdLens,       \* outcomes of the payload reads, in order (-1: failed)
    wrLog,        \* the write transfers: endpoint address, length, outcome
    xfers,        \* the transfers issued: operation, library call, handle, endpoint address
    handle,       \* Usb2snes.handle: the device the handle was opened on
    err,          \* the error value the current call returned, "none" if none
    \* ---- get_end_points (SpecResolve)
    tree,         \* the descriptor tree of the device
    kind,         \* the requested transfer type
    resolved,     \* what get_end_points returned
    \* ---- open_device (SpecLocate)
    devices,      \* the device list of the context
    devIdx,       \* position of the loop over the device list
    examined,     \* devices whose descriptor was asked for, in order
    opened,       \* devices on which open() was called, in order
    located,      \* what open_device returned
    \* ---- new_from_vid_pid and configure_endpoint (SpecCtor)
    ctor,         \* position of the constructor
    ctorLog,      \* the calls the constructor made after open_device, in order
    ctorRet,      \* what the constructor returned
    driver        \* driver[i]: a kernel driver is attached to interface i

vars == << pc, calls, endpoint_in, endpoint_out, offset, size, command, output,
           result, fail_counts, size_count, ret, devNext, devEnd, reqEnd,
           drLens, rdLens, wrLog, xfers, handle, err, tree, kind, resolved,
           devices, devIdx, examined, opened, located,
           ctor, ctorLog, ctorRet, driver >>

\* one get_memory call and the device side
callVars == << pc, calls, offset, size, command, output, result, fail_counts,
               size_count, ret, devNext, devEnd, reqEnd, drLens, rdLens, wrLog,
               xfers, err >>

\* the fields of the facade
facadeVars == << endpoint_in, endpoint_out, handle >>

memVars == << callVars, facadeVars >>

resolveVars == << tree, kind, resolved >>

locateVars == << devices, devIdx, examined, opened, located >>

ctorVars == << ctor, ctorLog, ctorRet, driver >>

----------------------------------------------------------------------------
(* Bounds of the model *)

MaxCalls == 2     \* get_memory calls on one facade
MaxDrain == 2     \* drain reads per call
MaxReads == 2     \* payload reads per call

----------------------------------------------------------------------------
(* u32 and i32 arithmetic *)

Half == 256 * 256

U32(h, l) == [hi |-> h, lo |-> l]

\* the i32 range
MinI32 == -2147483647 - 1
MaxI32 == -(MinI32 + 1)

\* `size as i32`: the same 32 bits read as a two's complement number
AsI32(u) ==
    IF u.hi >= 32768 THEN (u.hi - Half) * Half + u.lo ELSE u.hi * Half + u.lo

\* ShrByte with the shifts in the opposite order (least significant first)
ShrByte_LittleEndian(u, s) ==
    CASE s = 0  -> u.hi \div 256
      [] s = 8  -> u.hi % 256
      [] s = 16 -> u.lo \div 256
      [] s = 24 -> u.lo % 256

\* `(x >> s) & 0xff` for s = 24, 16, 8, 0
ShrByte(u, s) ==
    CASE s = 24 -> u.hi \div 256
      [] s = 16 -> u.hi % 256
      [] s = 8  -> u.lo \div 256
      [] s = 0  -> u.lo % 256

----------------------------------------------------------------------------
(* Protocol constants *)

Get == 0         \* Opcode::Get
Snes == 1        \* Space::Snes
Noresp == 64     \* Flags::Noresp
CommandLen == 512
OutputLen == 512
TempLen == 64
FailLimit == 1000

----------------------------------------------------------------------------
(* Byte buffers as sequences of runs *)

Run(v, n) == [v |-> v, n |-> n]

\* the run that follows the first k bytes of run r
RunFrom(r, k) == Run(IF r.v = 0 THEN 0 ELSE r.v + k, r.n - k)

\* r2 continues r1: both zero, or consecutive stream bytes
Joins(r1, r2) ==
    \/ r1.v = 0 /\ r2.v = 0
    \/ r1.v > 0 /\ r2.v = r1.v + r1.n

RECURSIVE BufLen(_)
BufLen(b) == IF b = << >> THEN 0 ELSE Head(b).n + BufLen(Tail(b))

RECURSIVE Drop(_, _)
\* the buffer without its first k bytes
Drop(b, k) ==
    IF k = 0 \/ b = << >> THEN b
    ELSE IF Head(b).n <= k THEN Drop(Tail(b), k - Head(b).n)
    ELSE << RunFrom(Head(b), k) >> \o Tail(b)

RECURSIVE Take(_, _)
\* the first k bytes of the buffer
Take(b, k) ==
    IF k = 0 \/ b = << >> THEN << >>
    ELSE IF Head(b).n <= k THEN << Head(b) >> \o Take(Tail(b), k - Head(b).n)
    ELSE << Run(Head(b).v, k) >>

RECURSIVE Norm(_)
\* the same bytes with no empty run and no two runs that join
Norm(b) ==
    IF b = << >> THEN b
    ELSE IF Head(b).n = 0 THEN Norm(Tail(b))
    ELSE LET t == Norm(Tail(b)) IN
         IF t # << >> /\ Joins(Head(b), Head(t))
         THEN << Run(Head(b).v, Head(b).n + Head(t).n) >> \o Tail(t)
         ELSE << Head(b) >> \o t

RECURSIVE ByteAt(_, _)
\* the i-th byte (from 1) of the buffer
ByteAt(b, i) ==
    IF i <= Head(b).n
    THEN (IF Head(b).v = 0 THEN 0 ELSE Head(b).v + i - 1)
    ELSE ByteAt(Tail(b), i - Head(b).n)

\* a buffer of n zero bytes: [0; n]
ZeroBuf(n) == << Run(0, n) >>

\* data[i] = x (i is the 0-based index)
Poke(data, i, x) ==
    Norm(Take(data, i) \o << Run(x, 1) >> \o Drop(data, i + 1))

----------------------------------------------------------------------------
(* The command frame *)

\* fill_header: b'U', b'S', b'B', b'A', the opcode, the space, the flags
fill_header(data, op_code) ==
    Poke(Poke(Poke(Poke(Poke(Poke(Poke(data,
        0, 85), 1, 83), 2, 66), 3, 65), 4, op_code), 5, Snes), 6, Noresp)

\* data[at] .. data[at + 3] = the four bytes of u, most significant first
PutBE(data, at, u) ==
    Poke(Poke(Poke(Poke(data,
        at, ShrByte(u, 24)), at + 1, ShrByte(u, 16)),
        at + 2, ShrByte(u, 8)), at + 3, ShrByte(u, 0))

\* the command buffer get_memory builds before the drain
BuildCommand(off, sz) ==
    PutBE(PutBE(fill_header(ZeroBuf(CommandLen), Get), 256, off), 252, sz)

----------------------------------------------------------------------------
(* The inputs of the model *)

\* arguments (offset, size) of get_memory: the example's call (0x7E079B, 7),
\* both ends of the u32 range, the sign bit, a size of two reads (512 + 7)
Args == { << U32(126, 1947), U32(0, 7) >>,
          << U32(0, 0), U32(0, 0) >>,
          << U32(65535, 65535), U32(0, 519) >>,
          << U32(258, 772), U32(32768, 0) >>,
          << U32(32768, 1), U32(65535, 65535) >> }

\* number of response bytes the device queues when a command is written
DevSends == { 0, 520 }

\* lengths a successful read may report
DrainLens == { 0, 64 }
ReadLens == { 0, 7, 512 }

\* the endpoint pairs construction can have bound
Endpoint(c, i, s, a) == [config |-> c, iface |-> i, setting |-> s, address |-> a]
Facades == { [in |-> Endpoint(1, 0, 0, 129), out |-> Endpoint(1, 0, 0, 1)],
             [in |-> Endpoint(1, 1, 0, 130), out |-> Endpoint(1, 1, 0, 2)] }

\* the transfer type of the pair a facade was built on: the first pair is
\* an interrupt pair (lib.rs 98-107), the second a bulk pair (lib.rs 112-133)
FacadeKind(f) == IF f.in.iface = 0 THEN "Interrupt" ELSE "Bulk"

\* an Option that is None, and a value that was not computed yet
None == [none |-> TRUE]
Pending == [pending |-> TRUE]

\* the position and the result of open_device
Locating(st) == [state |-> st, ok |-> FALSE, device |-> 0, err |-> "none"]
Located(i) == [state |-> "done", ok |-> TRUE, device |-> i, err |-> "none"]
NotLocated(e) == [state |-> "done", ok |-> FALSE, device |-> 0, err |-> e]

\* the sequences of at most n elements of S
RECURSIVE SeqsUpTo(_, _)
SeqsUpTo(S, n) ==
    IF n = 0 THEN { << >> }
    ELSE LET shorter == SeqsUpTo(S, n - 1) IN
         shorter \cup { Append(q, x) : q \in { r \in shorter : Len(r) = n - 1 }, x \in S }

----------------------------------------------------------------------------
(* Error values *)

\* the places where the library gives up
Failures == { "devices", "open", "device-not-found", "no-transport",
              "endpoint-configuration-failed", "write-failed", "read-failed",
              "read-exhausted" }

\* the error value each of them hands to the caller: the libusb error `e`
\* as it came, or Error::Other
ErrorOf(failure) ==
    CASE failure = "devices" -> "e"                            \* lib.rs 144
      [] failure = "open" -> "e"                               \* lib.rs 161
      [] failure = "device-not-found" -> "Other"               \* lib.rs 169
      [] failure = "no-transport" -> "Other"                   \* lib.rs 138
      [] failure = "endpoint-configuration-failed" -> "Other"  \* lib.rs 122
      [] failure = "write-failed" -> "Other"                   \* lib.rs 279
      [] failure = "read-failed" -> "Other"                    \* lib.rs 302
      [] failure = "read-exhausted" -> "Other"                 \* lib.rs 307

\* what the constructor returns: Ok(Usb2snes { .. }) or Err(error value)
CtorOk == [ok |-> TRUE, err |-> "none", why |-> "none"]
CtorErr(failure) == [ok |-> FALSE, err |-> ErrorOf(failure), why |-> failure]

----------------------------------------------------------------------------
(* The transport: handle.read_bulk and handle.write_bulk *)

\* lib.rs 289, 342: the endpoint address the reads are issued to
ReadEndpoint_Out == endpoint_out.address
ReadEndpoint == endpoint_in.address

\* lib.rs 275: the endpoint address the write is issued to
WriteEndpoint == endpoint_out.address

\* lib.rs 275, 289, 342: the library call of every transfer is the bulk one
TransferCall(op) == "Bulk"

\* a transfer as the transport sees it
Transfer(op, ep) == [op |-> op, call |-> TransferCall(op), handle |-> handle, ep |-> ep]

\* what a read into a buffer of buflen bytes can report: a failure (-1) or
\* a length that neither exceeds the buffer nor the bytes the device queued
ReadOutcomes(buflen, lens) ==
    {-1} \cup { l \in lens : l <= buflen /\ l <= devEnd - devNext }

\* the buffer after a read: a successful read of len bytes stores the next
\* len stream bytes at its start and leaves the rest as it was
Received(buf, len) ==
    Norm(<< Run(devNext + 1, len) >> \o Drop(buf, len))

----------------------------------------------------------------------------
(* get_memory *)

\* lib.rs 249-270: the call builds the command and enters the drain
GetMemory(off, sz) ==
    /\ pc \in {"idle", "returned"}
    /\ calls < MaxCalls
    /\ calls' = calls + 1
    /\ offset' = off
    /\ size' = sz
    /\ command' = BuildCommand(off, sz)
    /\ output' = ZeroBuf(OutputLen)
    /\ result' = << >>
    /\ fail_counts' = 0
    /\ size_count' = 0
    /\ ret' = "none"
    /\ drLens' = << >>
    /\ rdLens' = << >>
    /\ wrLog' = << >>
    /\ xfers' = {}
    /\ err' = "none"
    /\ pc' = "clear_read"
    /\ UNCHANGED << facadeVars, devNext, devEnd, reqEnd >>

\* DrainLen taking a failed read for a read of one byte
DrainLen_ErrAsData(r) == IF r = -1 THEN 1 ELSE r

\* clear_read: a failed read counts as a read of no bytes
DrainLen(r) == IF r = -1 THEN 0 ELSE r

\* DrainStops leaving the loop after the first read, whatever its length
DrainStops_Always(len) == TRUE

\* clear_read: the loop ends on a length of zero
DrainStops(len) == len = 0

\* lib.rs 336-351: one iteration of the drain loop
ClearReadStep ==
    /\ pc = "clear_read"
    /\ Len(drLens) < MaxDrain
    /\ \E r \in ReadOutcomes(TempLen, DrainLens) :
          /\ drLens' = Append(drLens, r)
          /\ devNext' = devNext + DrainLen(r)
          /\ pc' = IF DrainStops(DrainLen(r)) THEN "write_bulk" ELSE "clear_read"
    /\ xfers' = xfers \cup { Transfer("drain", ReadEndpoint) }
    /\ UNCHANGED << calls, facadeVars, offset, size, command,
                    output, result, fail_counts, size_count, ret, err, devEnd, reqEnd,
                    rdLens, wrLog >>

\* AfterWrite ignoring the outcome of the write
AfterWrite_Ignored(ok) == "read_loop"

\* lib.rs 275-281: where the call goes after the write
AfterWrite(ok) == IF ok THEN "read_loop" ELSE "returned"

\* lib.rs 272-285: the command write, and the locals of the read loop
WriteBulk ==
    /\ pc = "write_bulk"
    /\ \E ok \in BOOLEAN, n \in DevSends :
          /\ wrLog' = Append(wrLog, [ep |-> WriteEndpoint,
                                     len |-> BufLen(command), ok |-> ok])
          /\ devEnd' = devEnd + n
          /\ reqEnd' = Append(reqEnd, devEnd + n)
          /\ pc' = AfterWrite(ok)
          /\ ret' = IF AfterWrite(ok) = "returned" THEN "Err" ELSE "none"
          /\ err' = IF AfterWrite(ok) = "returned" THEN ErrorOf("write-failed") ELSE "none"
          /\ size_count' = IF ok THEN AsI32(size) ELSE size_count
    /\ xfers' = xfers \cup { Transfer("write", WriteEndpoint) }
    /\ fail_counts' = 0
    /\ result' = << >>
    /\ UNCHANGED << calls, facadeVars, offset, size, command,
                    output, devNext, drLens, rdLens >>

\* lib.rs 292: size_count -= len as i32 overflows below the i32 range
Underflows(sc, len) == sc < MinI32 + len

\* the difference as a release build computes it (two's complement wrap)
WrappingSub(sc, len) ==
    IF Underflows(sc, len) THEN MaxI32 - ((len - (sc - MinI32)) - 1) ELSE sc - len

\* lib.rs 294-296: what one successful read appends to the result
Pushed(buf, len) == buf

\* LoopDone with a strict comparison
LoopDone_Strict(sc) == sc < 0

\* lib.rs 310: the loop ends when the counter is zero or below
LoopDone(sc) == sc <= 0

\* lib.rs 287-313: one iteration of the payload read loop
ReadStep ==
    /\ pc = "read_loop"
    /\ Len(rdLens) < MaxReads
    /\ \E r \in ReadOutcomes(OutputLen, ReadLens) :
          /\ rdLens' = Append(rdLens, r)
          /\ IF r = -1
             THEN /\ fail_counts' = fail_counts + 1
                  /\ pc' = "returned" /\ ret' = "Err" /\ result' = << >>
                  /\ err' = ErrorOf("read-failed")
                  /\ UNCHANGED << size_count, output, devNext >>
             ELSE /\ devNext' = devNext + r
                  /\ output' = Received(output, r)
                  /\ fail_counts' = fail_counts
                  /\ \/ /\ Underflows(size_count, r)
                        /\ pc' = "panicked"
                        /\ UNCHANGED << size_count, result, ret, err >>
                     \/ /\ size_count' = WrappingSub(size_count, r)
                        /\ result' = Norm(result \o Pushed(output', r))
                        /\ IF fail_counts = FailLimit
                           THEN /\ pc' = "returned" /\ ret' = "Err"
                                /\ err' = ErrorOf("read-exhausted")
                           ELSE IF LoopDone(size_count')
                                THEN pc' = "returned" /\ ret' = "Ok" /\ err' = err
                                ELSE pc' = "read_loop" /\ ret' = ret /\ err' = err
    /\ xfers' = xfers \cup { Transfer("read", ReadEndpoint) }
    /\ UNCHANGED << calls, facadeVars, offset, size, command,
                    devEnd, reqEnd, drLens, wrLog >>

----------------------------------------------------------------------------
(* The specification of the facade *)

Init ==
    /\ pc = "idle"
    /\ calls = 0
    /\ \E f \in Facades :
          endpoint_in = f.in /\ endpoint_out = f.out /\ kind = FacadeKind(f)
    /\ handle = 1
    /\ xfers = {}
    /\ err = "none"
    /\ offset = U32(0, 0)
    /\ size = U32(0, 0)
    /\ command = ZeroBuf(CommandLen)
    /\ output = ZeroBuf(OutputLen)
    /\ result = << >>
    /\ fail_counts = 0
    /\ size_count = 0
    /\ ret = "none"
    /\ devNext = 0
    /\ devEnd = 0
    /\ reqEnd = << >>
    /\ drLens = << >>
    /\ rdLens = << >>
    /\ wrLog = << >>
    /\ tree = << >>
    /\ resolved = Pending
    /\ devices = [ok |-> TRUE, list |-> << >>]
    /\ devIdx = 0
    /\ examined = << >>
    /\ opened = << >>
    /\ located = Locating("start")
    /\ ctor = "done"
    /\ ctorLog = << >>
    /\ ctorRet = CtorOk
    /\ driver = << >>

Next ==
    \/ \E a \in Args :
          GetMemory(a[1], a[2]) /\ UNCHANGED << resolveVars, locateVars, ctorVars >>
    \/ ClearReadStep /\ UNCHANGED << resolveVars, locateVars, ctorVars >>
    \/ WriteBulk /\ UNCHANGED << resolveVars, locateVars, ctorVars >>
    \/ ReadStep /\ UNCHANGED << resolveVars, locateVars, ctorVars >>

Spec == Init /\ [][Next]_vars

----------------------------------------------------------------------------
(* get_end_points *)

MaxLeaves == 3    \* endpoint descriptors in a descriptor tree

TransferTypes == { "Interrupt", "Bulk", "Isochronous" }
Directions == { "In", "Out" }

\* an endpoint descriptor: transfer type, direction and address
EndpointDesc(tt, dir, addr) ==
    [transfer_type |-> tt, direction |-> dir, address |-> addr]

\* an interface descriptor (one alternate setting) and its endpoints
InterfaceDesc(ifn, alt, eps) ==
    [interface_number |-> ifn, setting_number |-> alt, endpoint_descriptors |-> eps]

\* a configuration: whether config_descriptor(n) can be read, its number,
\* and its interfaces, each the sequence of its alternate settings
ConfigDesc(ok, num, ifs) == [readable |-> ok, number |-> num, interfaces |-> ifs]

\* the i-th endpoint of a tree built from shapes: the address carries the
\* direction bit and the position, so that no two endpoints are alike
LeafAt(shapes, i) ==
    EndpointDesc(shapes[i][1], shapes[i][2],
                 (IF shapes[i][2] = "In" THEN 128 ELSE 0) + i)

Layouts == { "one setting", "settings", "interfaces", "configs" }

\* a descriptor tree with the given endpoints, laid out in one alternate
\* setting, one per alternate setting, one per interface or one per
\* configuration; configuration `bad` (if any) cannot be read
MkTree(shapes, layout, bad) ==
    LET n == Len(shapes)
        leaves == [i \in 1..n |-> LeafAt(shapes, i)]
    IN  CASE layout = "one setting" ->
               << ConfigDesc(bad # 1, 1, << << InterfaceDesc(0, 0, leaves) >> >>) >>
          [] layout = "settings" ->
               << ConfigDesc(bad # 1, 1,
                    << [i \in 1..n |-> InterfaceDesc(0, i - 1, << leaves[i] >>)] >>) >>
          [] layout = "interfaces" ->
               << ConfigDesc(bad # 1, 1,
                    [i \in 1..n |-> << InterfaceDesc(i - 1, 0, << leaves[i] >>) >>]) >>
          [] layout = "configs" ->
               [i \in 1..n |->
                    ConfigDesc(bad # i, i, << << InterfaceDesc(0, 0, << leaves[i] >>) >> >>)]

Trees ==
    { MkTree(sh, lay, bad) :
        sh \in SeqsUpTo(TransferTypes \X Directions, MaxLeaves),
        lay \in Layouts, bad \in 0..MaxLeaves }

\* lib.rs 213-218, 220-225: the Endpoint recorded for an endpoint descriptor
EndpointOf(config_desc, interface_desc, endpoint_desc) ==
    Endpoint(config_desc.number, interface_desc.interface_number,
             interface_desc.setting_number, endpoint_desc.address)

\* Visit keeping the first match of a direction instead of the last
Visit_FirstWins(acc, config_desc, interface_desc, endpoint_desc, transfer_type) ==
    IF endpoint_desc.transfer_type # transfer_type THEN acc
    ELSE IF endpoint_desc.direction = "In"
    THEN (IF acc.in = None
          THEN [acc EXCEPT !.in = EndpointOf(config_desc, interface_desc, endpoint_desc)]
          ELSE acc)
    ELSE (IF acc.out = None
          THEN [acc EXCEPT !.out = EndpointOf(config_desc, interface_desc, endpoint_desc)]
          ELSE acc)

\* lib.rs 208-226: the body of the innermost loop
Visit(acc, config_desc, interface_desc, endpoint_desc, transfer_type) ==
    IF endpoint_desc.transfer_type # transfer_type THEN acc
    ELSE IF endpoint_desc.direction = "In"
    THEN [acc EXCEPT !.in = EndpointOf(config_desc, interface_desc, endpoint_desc)]
    ELSE IF endpoint_desc.direction = "Out"
    THEN [acc EXCEPT !.out = EndpointOf(config_desc, interface_desc, endpoint_desc)]
    ELSE acc

RECURSIVE ScanEndpoints(_, _, _, _, _)
\* lib.rs 207: for endpoint_desc in interface_desc.endpoint_descriptors()
ScanEndpoints(acc, config_desc, interface_desc, eps, transfer_type) ==
    IF eps = << >> THEN acc
    ELSE ScanEndpoints(Visit(acc, config_desc, interface_desc, Head(eps), transfer_type),
                       config_desc, interface_desc, Tail(eps), transfer_type)

RECURSIVE ScanDescriptors(_, _, _, _)
\* lib.rs 206: for interface_desc in interface.descriptors()
ScanDescriptors(acc, config_desc, descs, transfer_type) ==
    IF descs = << >> THEN acc
    ELSE ScanDescriptors(
            ScanEndpoints(acc, config_desc, Head(descs),
                          Head(descs).endpoint_descriptors, transfer_type),
            config_desc, Tail(descs), transfer_type)

RECURSIVE ScanInterfaces(_, _, _, _)
\* lib.rs 205: for interface in config_desc.interfaces()
ScanInterfaces(acc, config_desc, ifs, transfer_type) ==
    IF ifs = << >> THEN acc
    ELSE ScanInterfaces(ScanDescriptors(acc, config_desc, Head(ifs), transfer_type),
                        config_desc, Tail(ifs), transfer_type)

RECURSIVE ScanConfigs(_, _, _)
\* lib.rs 199-203: for n in 0..num_configurations(), skipping a
\* configuration whose descriptor cannot be read
ScanConfigs(acc, configs, transfer_type) ==
    IF configs = << >> THEN acc
    ELSE ScanConfigs(
            IF Head(configs).readable
            THEN ScanInterfaces(acc, Head(configs), Head(configs).interfaces, transfer_type)
            ELSE acc,
            Tail(configs), transfer_type)

\* lib.rs 195-237
get_end_points(device, transfer_type) ==
    LET acc == ScanConfigs([in |-> None, out |-> None], device, transfer_type) IN
    IF acc.in # None /\ acc.out # None
    THEN [in |-> acc.in, out |-> acc.out]
    ELSE None

InitResolve ==
    /\ tree \in Trees
    /\ kind \in TransferTypes
    /\ resolved = Pending
    /\ pc = "idle"
    /\ calls = 0
    /\ endpoint_in = None /\ endpoint_out = None
    /\ offset = U32(0, 0) /\ size = U32(0, 0)
    /\ command = << >> /\ output = << >> /\ result = << >>
    /\ fail_counts = 0 /\ size_count = 0
    /\ ret = "none"
    /\ devNext = 0 /\ devEnd = 0 /\ reqEnd = << >>
    /\ drLens = << >> /\ rdLens = << >> /\ wrLog = << >>
    /\ xfers = {} /\ handle = 0 /\ err = "none"
    /\ ctor = "start" /\ ctorLog = << >> /\ ctorRet = Pending /\ driver = << >>
    /\ devices = [ok |-> TRUE, list |-> << >>] /\ devIdx = 0
    /\ examined = << >> /\ opened = << >>
    /\ located = Locating("start")

\* one call of get_end_points on the tree
Resolve ==
    /\ resolved = Pending
    /\ resolved' = get_end_points(tree, kind)
    /\ UNCHANGED << tree, kind >>

NextResolve == Resolve /\ UNCHANGED << memVars, locateVars, ctorVars >>

SpecResolve == InitResolve /\ [][NextResolve]_vars

----------------------------------------------------------------------------
(* open_device *)

MaxDevices == 3   \* devices in the list of the context

VENDOR_ID == 4617      \* 0x1209
PRODUCT_ID == 23074    \* 0x5a22

\* a device of the list: whether its descriptor can be read, the ids of
\* the descriptor, and whether open() succeeds
DeviceShapes ==
    [descOk : BOOLEAN, vendor_id : { VENDOR_ID, 7531 },
     product_id : { PRODUCT_ID, 2 }, openOk : BOOLEAN]

\* lib.rs 157: the device is the one looked for
Matches(desc, vid, pid) == desc.vendor_id = vid /\ desc.product_id = pid

\* OnOpenError going on with the next device
OnOpenError_Continue == "continue"

\* lib.rs 161: what the loop does when open() fails
OnOpenError == "return"

InitLocate ==
    /\ \E ok \in BOOLEAN, list \in SeqsUpTo(DeviceShapes, MaxDevices) :
          /\ ok \/ list = << >>
          /\ devices = [ok |-> ok, list |-> list]
    /\ devIdx = 0
    /\ examined = << >>
    /\ opened = << >>
    /\ located = Locating("start")
    /\ tree = << >> /\ kind = "Interrupt" /\ resolved = Pending
    /\ pc = "idle"
    /\ calls = 0
    /\ endpoint_in = None /\ endpoint_out = None
    /\ offset = U32(0, 0) /\ size = U32(0, 0)
    /\ command = << >> /\ output = << >> /\ result = << >>
    /\ fail_counts = 0 /\ size_count = 0
    /\ ret = "none"
    /\ devNext = 0 /\ devEnd = 0 /\ reqEnd = << >>
    /\ drLens = << >> /\ rdLens = << >> /\ wrLog = << >>
    /\ xfers = {} /\ handle = 0 /\ err = "none"
    /\ ctor = "start" /\ ctorLog = << >> /\ ctorRet = Pending /\ driver = << >>

\* lib.rs 144: context.devices()?
OpenDeviceEnter ==
    /\ located.state = "start"
    /\ located' = IF devices.ok THEN Locating("loop") ELSE NotLocated("devices")
    /\ UNCHANGED << devices, devIdx, examined, opened >>

\* lib.rs 148-164: one iteration of the loop over the devices
OpenDeviceStep(vid, pid) ==
    /\ located.state = "loop"
    /\ devIdx < Len(devices.list)
    /\ LET i == devIdx + 1
           device == devices.list[i]
       IN  /\ devIdx' = i
           /\ examined' = Append(examined, i)
           /\ IF ~device.descOk
              THEN UNCHANGED << opened, located >>
              ELSE IF Matches(device, vid, pid)
              THEN /\ opened' = Append(opened, i)
                   /\ located' = IF device.openOk THEN Located(i)
                                 ELSE IF OnOpenError = "return" THEN NotLocated("open")
                                 ELSE located
              ELSE UNCHANGED << opened, located >>
    /\ UNCHANGED devices

\* lib.rs 166-169: no device of the list was returned
OpenDeviceEnd ==
    /\ located.state = "loop"
    /\ devIdx = Len(devices.list)
    /\ located' = NotLocated("Other")
    /\ UNCHANGED << devices, devIdx, examined, opened >>

NextLocate ==
    \/ OpenDeviceEnter /\ UNCHANGED << memVars, resolveVars, ctorVars >>
    \/ OpenDeviceStep(VENDOR_ID, PRODUCT_ID) /\ UNCHANGED << memVars, resolveVars, ctorVars >>
    \/ OpenDeviceEnd /\ UNCHANGED << memVars, resolveVars, ctorVars >>

SpecLocate == InitLocate /\ [][NextLocate]_vars

----------------------------------------------------------------------------
(* new_from_vid_pid and configure_endpoint *)

\* the device lists of the construction runs: no device, the device looked
\* for (opening or not), and the device looked for behind another one
CtorDevices ==
    LET dev(v, o) == [descOk |-> TRUE, vendor_id |-> v,
                      product_id |-> PRODUCT_ID, openOk |-> o]
    IN  { << >>, << dev(VENDOR_ID, TRUE) >>, << dev(VENDOR_ID, FALSE) >>,
          << dev(7531, TRUE), dev(VENDOR_ID, TRUE) >> }

\* the descriptor trees of the construction runs: interrupt and bulk
\* endpoints, in one alternate setting or one per interface
CtorTrees ==
    { MkTree(sh, lay, 0) :
        sh \in SeqsUpTo({ "Interrupt", "Bulk" } \X Directions, MaxLeaves + 1),
        lay \in { "one setting", "interfaces" } }

\* the interfaces a kernel driver can be attached to
Interfaces == 0..MaxLeaves

\* lib.rs 92: the failure open_device ended with
LocateFailure(l) == IF l.err = "Other" THEN "device-not-found" ELSE l.err

\* an entry of the log of the constructor
Called(op, arg, res) == [op |-> op, arg |-> arg, res |-> res]

\* ConfiguredEndpoint taking the input endpoint of the pair
ConfiguredEndpoint_In(ends) == ends.in

\* lib.rs 120: the endpoint of the bulk pair handed to configure_endpoint
ConfiguredEndpoint(ends) == ends.out

\* NeedsAttach never reattaching
NeedsAttach_Never(has_kernel_driver) == FALSE

\* lib.rs 188: configure_endpoint reattaches when it detached
NeedsAttach(has_kernel_driver) == has_kernel_driver

InitCtor ==
    /\ \E ok \in BOOLEAN, list \in CtorDevices :
          /\ ok \/ list = << >>
          /\ devices = [ok |-> ok, list |-> list]
    /\ devIdx = 0
    /\ examined = << >>
    /\ opened = << >>
    /\ located = Locating("start")
    /\ tree \in CtorTrees
    /\ kind = "none"
    /\ resolved = Pending
    /\ driver \in { {}, Interfaces }
    /\ ctor = "start"
    /\ ctorLog = << >>
    /\ ctorRet = Pending
    /\ endpoint_in = None /\ endpoint_out = None /\ handle = 0
    /\ pc = "idle"
    /\ calls = 0
    /\ offset = U32(0, 0) /\ size = U32(0, 0)
    /\ command = << >> /\ output = << >> /\ result = << >>
    /\ fail_counts = 0 /\ size_count = 0
    /\ ret = "none"
    /\ devNext = 0 /\ devEnd = 0 /\ reqEnd = << >>
    /\ drLens = << >> /\ rdLens = << >> /\ wrLog = << >>
    /\ xfers = {} /\ err = "none"

\* lib.rs 90-93: the result of open_device
CtorOpened ==
    /\ ctor = "start"
    /\ located.state = "done"
    /\ IF located.ok
       THEN /\ handle' = located.device
            /\ ctor' = "interrupt"
            /\ ctorRet' = ctorRet
       ELSE /\ ctorRet' = CtorErr(LocateFailure(located))
            /\ ctor' = "done"
            /\ handle' = handle
    /\ UNCHANGED << callVars, endpoint_in, endpoint_out, resolveVars, locateVars,
                    ctorLog, driver >>

\* lib.rs 98-107, 124-132: Ok(Usb2snes { .. }) built on the resolved pair
Bind(ends, transfer_type) ==
    /\ endpoint_in' = ends.in
    /\ endpoint_out' = ends.out
    /\ kind' = transfer_type
    /\ ctorRet' = CtorOk
    /\ ctor' = "done"

\* lib.rs 96-108: the interrupt pair, returned at once when there is one
CtorInterrupt ==
    /\ ctor = "interrupt"
    /\ LET ends == get_end_points(tree, "Interrupt") IN
       /\ resolved' = ends
       /\ ctorLog' = Append(ctorLog, Called("get_end_points", "Interrupt", ends))
       /\ IF ends # None
          THEN Bind(ends, "Interrupt")
          ELSE /\ ctor' = "bulk"
               /\ UNCHANGED << endpoint_in, endpoint_out, kind, ctorRet >>
    /\ UNCHANGED << callVars, handle, tree, locateVars, driver >>

\* lib.rs 110-112, 136-138: the bulk pair, or no pair at all
CtorBulk ==
    /\ ctor = "bulk"
    /\ LET ends == get_end_points(tree, "Bulk") IN
       /\ resolved' = ends
       /\ ctorLog' = Append(ctorLog, Called("get_end_points", "Bulk", ends))
       /\ IF ends # None
          THEN ctor' = "configure" /\ ctorRet' = ctorRet
          ELSE ctor' = "done" /\ ctorRet' = CtorErr("no-transport")
    /\ UNCHANGED << callVars, facadeVars, tree, kind, locateVars, driver >>

\* lib.rs 188-192 and 120-133: configure_endpoint past the detach, with
\* the value of has_kernel_driver
AfterDetach(has_kernel_driver) ==
    IF NeedsAttach(has_kernel_driver)
    THEN /\ ctor' = "attach"
         /\ UNCHANGED << endpoint_in, endpoint_out, kind, ctorRet >>
    ELSE Bind(resolved, "Bulk")

\* lib.rs 173-182: handle.kernel_driver_active(endpoint.iface)
ConfigureActive ==
    /\ ctor = "configure"
    /\ LET iface == ConfiguredEndpoint(resolved).iface IN
       \E r \in { IF iface \in driver THEN "true" ELSE "false", "err" } :
          /\ ctorLog' = Append(ctorLog, Called("kernel_driver_active", iface, r))
          /\ IF r = "true"
             THEN /\ ctor' = "detach"
                  /\ UNCHANGED << endpoint_in, endpoint_out, kind, ctorRet >>
             ELSE AfterDetach(FALSE)
    /\ UNCHANGED << callVars, handle, tree, resolved, locateVars, driver >>

\* lib.rs 176: handle.detach_kernel_driver(endpoint.iface)?
ConfigureDetach ==
    /\ ctor = "detach"
    /\ LET iface == ConfiguredEndpoint(resolved).iface IN
       \E ok \in BOOLEAN :
          /\ ctorLog' = Append(ctorLog, Called("detach_kernel_driver", iface,
                                               IF ok THEN "ok" ELSE "err"))
          /\ IF ok
             THEN /\ driver' = driver \ { iface }
                  /\ AfterDetach(TRUE)
             ELSE /\ driver' = driver
                  /\ ctor' = "done"
                  /\ ctorRet' = CtorErr("endpoint-configuration-failed")
                  /\ UNCHANGED << endpoint_in, endpoint_out, kind >>
    /\ UNCHANGED << callVars, handle, tree, resolved, locateVars >>

\* lib.rs 189: handle.attach_kernel_driver(endpoint.iface)?
ConfigureAttach ==
    /\ ctor = "attach"
    /\ LET iface == ConfiguredEndpoint(resolved).iface IN
       \E ok \in BOOLEAN :
          /\ ctorLog' = Append(ctorLog, Called("attach_kernel_driver", iface,
                                               IF ok THEN "ok" ELSE "err"))
          /\ IF ok
             THEN /\ driver' = driver \cup { iface }
                  /\ Bind(resolved, "Bulk")
             ELSE /\ driver' = driver
                  /\ ctor' = "done"
                  /\ ctorRet' = CtorErr("endpoint-configuration-failed")
                  /\ UNCHANGED << endpoint_in, endpoint_out, kind >>
    /\ UNCHANGED << callVars, handle, tree, resolved, locateVars >>

\* lib.rs 88-139: new_from_vid_pid(context, VENDOR_ID, PRODUCT_ID)
NextCtor ==
    \/ ctor = "start" /\ OpenDeviceEnter /\ UNCHANGED << memVars, resolveVars, ctorVars >>
    \/ /\ ctor = "start" /\ OpenDeviceStep(VENDOR_ID, PRODUCT_ID)
       /\ UNCHANGED << memVars, resolveVars, ctorVars >>
    \/ ctor = "start" /\ OpenDeviceEnd /\ UNCHANGED << memVars, resolveVars, ctorVars >>
    \/ CtorOpened
    \/ CtorInterrupt
    \/ CtorBulk
    \/ ConfigureActive
    \/ ConfigureDetach
    \/ ConfigureAttach

SpecCtor == InitCtor /\ [][NextCtor]_vars

----------------------------------------------------------------------------
(* What the claims speak about *)

RECURSIVE SumOk(_)
\* the bytes delivered by the successful reads of a log
SumOk(log) ==
    IF log = << >> THEN 0
    ELSE (IF Head(log) > 0 THEN Head(log) ELSE 0) + SumOk(Tail(log))

\* bytes delivered by the successful payload reads of the current call
Delivered == SumOk(rdLens)

\* bytes consumed by the drain of the current call
Drained == SumOk(drLens)

\* the stream position the host was at when the current call began
CallStart == devNext - Delivered - Drained

\* the stream position the host was at when the read loop began
LoopStart == devNext - Delivered

\* u <= n and u < n for a u32 u and a natural n below 2^31
U32Le(u, n) == u.hi < 32768 /\ u.hi * Half + u.lo <= n
U32Lt(u, n) == u.hi < 32768 /\ u.hi * Half + u.lo < n

\* the first stream byte the device sent in answer to the current call
OwnFirst == (IF calls = 1 THEN 0 ELSE reqEnd[calls - 1]) + 1

AllOk(log) == \A i \in 1..Len(log) : log[i] >= 0
AllFailed(log) == \A i \in 1..Len(log) : log[i] = -1

WriteOk == Len(wrLog) = 1 /\ wrLog[1].ok

\* the stream position before the k-th payload read of the current call
ReadStart(k) == LoopStart + SumOk(SubSeq(rdLens, 1, k - 1))

----------------------------------------------------------------------------
(* C1: a get_memory call that returns success returns at least `size`     *)
(* bytes, its successful payload reads delivered at least `size` bytes,    *)
(* and a call that returns without having received `size` bytes returns an *)
(* error.                                                                  *)
C1_FullLengthOrError ==
    pc = "returned" =>
        /\ ret = "Ok" => U32Le(size, BufLen(result)) /\ U32Le(size, Delivered)
        /\ ~U32Le(size, Delivered) => ret = "Err"

(* C2: when the write succeeded and every payload read fails, the call     *)
(* returns its error after exactly 1000 failed reads.                      *)
C2_ExhaustedAtLimit ==
    (pc = "returned" /\ WriteOk /\ rdLens # << >> /\ AllFailed(rdLens)) =>
        Len(rdLens) = FailLimit /\ fail_counts = FailLimit

(* C3: when the successful payload reads, each of 1..512 bytes, sum to     *)
(* exactly `size`, the returned payload has exactly `size` bytes and is    *)
(* the bytes the reads delivered, in arrival order.                        *)
C3_ExactPayload ==
    (ret = "Ok" /\ (\A i \in 1..Len(rdLens) : rdLens[i] \in 1..OutputLen)
        /\ size.hi < 32768 /\ Delivered = AsI32(size)) =>
        /\ BufLen(result) = Delivered
        /\ result = Norm(<< Run(LoopStart + 1, Delivered) >>)

(* C4: when the successful payload reads sum to more than `size`, the call *)
(* succeeds, every byte each read delivered is in the payload, in arrival  *)
(* order, and the call stopped reading at the first read that brought the  *)
(* count of received bytes to `size` or more: after a read, the loop is    *)
(* never found waiting for a further read with `size` bytes received.      *)
C4_Overshoot ==
    /\ (pc = "read_loop" /\ rdLens # << >>) => ~U32Le(size, Delivered)
    /\ (pc = "returned" /\ WriteOk /\ AllOk(rdLens) /\ U32Lt(size, Delivered)) =>
          /\ ret = "Ok"
          /\ \A k \in 1..(Len(rdLens) - 1) :
                ~U32Le(size, SumOk(SubSeq(rdLens, 1, k)))
          /\ \A k \in 1..Len(rdLens) : \A i \in 1..rdLens[k] :
                ByteAt(result, (k - 1) * OutputLen + i) = ReadStart(k) + i

C4_Witness ==
    /\ pc = "returned" /\ ret = "Ok"
    /\ size = U32(0, 519) /\ rdLens = << 512, 512 >>

(* C5: when the drain reads N non-empty chunks and then a zero-length      *)
(* read, it issues exactly N+1 reads, no drained byte is in the result,    *)
(* and the command write comes only after the last of them.                *)
C5_Drain ==
    LET N == Cardinality({ i \in 1..Len(drLens) : drLens[i] > 0 }) IN
    /\ pc = "clear_read" => wrLog = << >> /\ rdLens = << >>
    /\ (pc \in {"write_bulk", "read_loop", "returned", "panicked"} /\ AllOk(drLens)) =>
          /\ Len(drLens) = N + 1
          /\ drLens[N + 1] = 0
          /\ \A i \in 1..Len(result) :
                result[i].v = 0 \/ result[i].v > CallStart + Drained

C5_Witness ==
    /\ pc = "returned" /\ ret = "Ok"
    /\ drLens = << 64, 0 >> /\ Len(wrLog) = 1

(* C6: every device byte in the payload a call returns was sent by the     *)
(* device in answer to that call's own command, never to an earlier one.   *)
C6_OwnBytesOnly ==
    ret = "Ok" =>
        \A i \in 1..Len(result) :
            result[i].v = 0 \/ result[i].v >= OwnFirst

(* C7: each call attempts the command write once, as one transfer of the   *)
(* whole 512-byte command to the output endpoint; when the write fails the *)
(* call returns an error at once, with no payload read and no other write. *)
C7_WriteOnce ==
    /\ Len(wrLog) <= 1
    /\ pc \in {"read_loop", "returned", "panicked"} => Len(wrLog) = 1
    /\ \A i \in 1..Len(wrLog) :
          /\ wrLog[i].ep = endpoint_out.address
          /\ wrLog[i].len = 512
          /\ ~wrLog[i].ok => pc = "returned" /\ ret = "Err" /\ rdLens = << >>

C7_Witness ==
    /\ pc = "returned" /\ ret = "Err"
    /\ Len(wrLog) = 1 /\ ~wrLog[1].ok

\* the u32 whose big-endian bytes are data[at .. at+3] (0-based offsets)
DecodeBE(data, at) ==
    U32(ByteAt(data, at + 1) * 256 + ByteAt(data, at + 2),
        ByteAt(data, at + 3) * 256 + ByteAt(data, at + 4))

\* bytes from .. to (0-based, inclusive) of a buffer
Slice(data, from, to) == Norm(Take(Drop(data, from), to - from + 1))

(* C8: the command frame of a call is 512 bytes: "USBA", the Get opcode 0, *)
(* the address space 1, the flag 64, the size and the address big-endian   *)
(* at 252 and 256, every other byte zero; decoding the two fields gives    *)
(* back the size and the address of this call.                             *)
C8_Frame ==
    pc # "idle" =>
        /\ BufLen(command) = 512
        /\ ByteAt(command, 1) = 85 /\ ByteAt(command, 2) = 83
        /\ ByteAt(command, 3) = 66 /\ ByteAt(command, 4) = 65
        /\ ByteAt(command, 5) = 0 /\ ByteAt(command, 6) = 1 /\ ByteAt(command, 7) = 64
        /\ Slice(command, 7, 251) = << Run(0, 245) >>
        /\ Slice(command, 260, 511) = << Run(0, 252) >>
        /\ \A i \in 252..259 : ByteAt(command, i + 1) \in 0..255
        /\ DecodeBE(command, 252) = size
        /\ DecodeBE(command, 256) = offset

C8_Witness ==
    /\ calls = 2 /\ pc = "returned"
    /\ size = U32(65535, 65535) /\ offset = U32(32768, 1)
    /\ ByteAt(command, 253) = 255 /\ ByteAt(command, 257) = 128
    /\ ByteAt(command, 260) = 1

----------------------------------------------------------------------------
(* The endpoints of a tree in enumeration order *)

\* the endpoint descriptors the host can read, in configuration, interface,
\* alternate setting, endpoint order, each with the Endpoint it stands for
RECURSIVE Flat(_)
Flat(seqs) == IF seqs = << >> THEN << >> ELSE Head(seqs) \o Flat(Tail(seqs))

Enumeration ==
    Flat([c \in 1..Len(tree) |->
        IF ~tree[c].readable THEN << >>
        ELSE Flat([f \in 1..Len(tree[c].interfaces) |->
               Flat([a \in 1..Len(tree[c].interfaces[f]) |->
                 LET d == tree[c].interfaces[f][a] IN
                 [e \in 1..Len(d.endpoint_descriptors) |->
                    [desc |-> d.endpoint_descriptors[e],
                     endpoint |-> Endpoint(tree[c].number, d.interface_number,
                                           d.setting_number,
                                           d.endpoint_descriptors[e].address)]]])])])

\* positions in the enumeration of the endpoints of the requested kind and
\* the given direction
Matching(dir) ==
    { i \in 1..Len(Enumeration) :
        /\ Enumeration[i].desc.transfer_type = kind
        /\ Enumeration[i].desc.direction = dir }

Last(S) == CHOOSE i \in S : \A j \in S : j <= i

(* C9: get_end_points returns a pair exactly when the readable tree has an *)
(* input and an output endpoint of the requested kind, and the pair is the *)
(* last such input and the last such output in enumeration order, each     *)
(* with its own config, interface, setting and address.                    *)
C9_LastOfEachDirection ==
    resolved # Pending =>
        IF Matching("In") # {} /\ Matching("Out") # {}
        THEN /\ resolved # None
             /\ resolved.in = Enumeration[Last(Matching("In"))].endpoint
             /\ resolved.out = Enumeration[Last(Matching("Out"))].endpoint
        ELSE resolved = None

C9_Witness ==
    /\ resolved \notin { Pending, None }
    /\ Cardinality(Matching("In")) = 2
    /\ resolved.in.address = 128 + 3
    /\ resolved.in.setting = 2
    /\ resolved.out.setting = 1

----------------------------------------------------------------------------
(* The devices of the list that answer to the ids looked for *)

Candidates ==
    { i \in 1..Len(devices.list) :
        /\ devices.list[i].descOk
        /\ devices.list[i].vendor_id = VENDOR_ID
        /\ devices.list[i].product_id = PRODUCT_ID }

First(S) == CHOOSE i \in S : \A j \in S : i <= j

UpTo(n) == [i \in 1..n |-> i]

(* C10: open_device selects the first device of the list whose descriptor  *)
(* can be read and carries both ids: it opens that device and no other,    *)
(* examines no device after it, and fails, without trying a later one,     *)
(* when that device does not open or when no device matches.               *)
C10_FirstMatchOnly ==
    (located.state = "done" /\ devices.ok) =>
        IF Candidates = {}
        THEN /\ ~located.ok
             /\ opened = << >>
             /\ examined = UpTo(Len(devices.list))
        ELSE /\ opened = << First(Candidates) >>
             /\ examined = UpTo(First(Candidates))
             /\ located.ok = devices.list[First(Candidates)].openOk
             /\ located.ok => located.device = First(Candidates)

C10_Witness ==
    /\ located.state = "done" /\ ~located.ok
    /\ Cardinality(Candidates) = 2
    /\ First(Candidates) = 2
    /\ devices.list[3].openOk
    /\ ~devices.list[1].descOk

----------------------------------------------------------------------------
(* The endpoint pairs of a tree, by transfer type *)

\* positions in the enumeration of the endpoints of one transfer type and
\* one direction
MatchingOf(transfer_type, dir) ==
    LET all == Enumeration IN
    { i \in 1..Len(all) :
        /\ all[i].desc.transfer_type = transfer_type
        /\ all[i].desc.direction = dir }

\* the tree has an input and an output endpoint of the transfer type
HasPair(transfer_type) ==
    MatchingOf(transfer_type, "In") # {} /\ MatchingOf(transfer_type, "Out") # {}

\* the pair of that type: the last input and the last output
PairOf(transfer_type) ==
    LET all == Enumeration
        ins == MatchingOf(transfer_type, "In")
        outs == MatchingOf(transfer_type, "Out")
    IN  [in |-> all[Last(ins)].endpoint, out |-> all[Last(outs)].endpoint]

\* the calls configure_endpoint makes on the handle
KernelOps == { "kernel_driver_active", "detach_kernel_driver", "attach_kernel_driver" }

\* the constructor returned a facade built on the pair
FacadeOn(ends) ==
    ctorRet = CtorOk /\ endpoint_in = ends.in /\ endpoint_out = ends.out

\* no facade was built
NoFacade == endpoint_in = None /\ endpoint_out = None /\ ctorRet # CtorOk

(* C11: construction selects the transport by strict preference.  When the *)
(* tree has an interrupt pair the facade is built on it and the only call  *)
(* made after opening the device is the interrupt resolution: no bulk      *)
(* resolution, no kernel-driver query, detach or attach.  Only when there  *)
(* is no interrupt pair is the bulk pair resolved, and then every          *)
(* kernel-driver call is on the interface of its output endpoint and the   *)
(* query comes before the facade is returned.  When there is neither pair, *)
(* or no device was opened, construction fails and no facade exists.       *)
C11_StrictPreference ==
    /\ ctor # "done" => NoFacade /\ ctorRet = Pending
    /\ ctor = "done" =>
          LET interrupt == PairOf("Interrupt")
              bulk == PairOf("Bulk")
          IN
          IF ~located.ok THEN ctorLog = << >> /\ NoFacade
          ELSE IF HasPair("Interrupt")
          THEN /\ FacadeOn(interrupt)
               /\ ctorLog = << Called("get_end_points", "Interrupt", interrupt) >>
          ELSE IF HasPair("Bulk")
          THEN /\ Len(ctorLog) >= 3
               /\ ctorLog[1] = Called("get_end_points", "Interrupt", None)
               /\ ctorLog[2] = Called("get_end_points", "Bulk", bulk)
               /\ ctorLog[3].op = "kernel_driver_active"
               /\ \A i \in 3..Len(ctorLog) :
                     /\ ctorLog[i].op \in KernelOps
                     /\ ctorLog[i].arg = bulk.out.iface
               /\ FacadeOn(bulk) \/ NoFacade
          ELSE /\ NoFacade
               /\ ctorLog = << Called("get_end_points", "Interrupt", None),
                               Called("get_end_points", "Bulk", None) >>

C11_Witness ==
    /\ ctor = "done" /\ ctorRet = CtorOk /\ kind = "Bulk"
    /\ MatchingOf("Interrupt", "In") # {}
    /\ endpoint_in.iface # endpoint_out.iface
    /\ Len(ctorLog) = 5

\* positions of the log where the constructor made the call `op`
CallsOf(op) == { i \in 1..Len(ctorLog) : ctorLog[i].op = op }

(* C16: on the bulk path a kernel driver is detached only right after the  *)
(* query reported it active on the interface of the output endpoint; a     *)
(* detach that succeeded is followed, whenever construction returns, by an *)
(* attach call on that same interface, and when that attach succeeds the   *)
(* driver is attached and the facade is returned; a detach that failed     *)
(* ends construction with an error and no further call; when the query     *)
(* does not report an active driver, no detach and no attach is issued and *)
(* the drivers are left as they were.                                      *)
C16_DriverRestored ==
    /\ \A i \in CallsOf("detach_kernel_driver") :
          /\ i > 1
          /\ ctorLog[i - 1] =
                Called("kernel_driver_active", PairOf("Bulk").out.iface, "true")
          /\ ctorLog[i].arg = ctorLog[i - 1].arg
          /\ ctorLog[i].res = "ok" =>
                (ctor = "done" =>
                    /\ i < Len(ctorLog)
                    /\ ctorLog[i + 1].op = "attach_kernel_driver"
                    /\ ctorLog[i + 1].arg = ctorLog[i].arg)
          /\ ctorLog[i].res = "err" =>
                ctor = "done" /\ ~ctorRet.ok /\ i = Len(ctorLog) /\ NoFacade
    /\ \A i \in CallsOf("attach_kernel_driver") :
          /\ ctorLog[i - 1].op = "detach_kernel_driver"
          /\ ctorLog[i - 1].res = "ok"
          /\ ctorLog[i].res = "ok" =>
                ctor = "done" /\ ctorLog[i].arg \in driver /\ ctorRet = CtorOk
    /\ \A i \in CallsOf("kernel_driver_active") :
          ctorLog[i].res # "true" =>
             /\ CallsOf("detach_kernel_driver") = {}
             /\ CallsOf("attach_kernel_driver") = {}
    /\ Cardinality(CallsOf("kernel_driver_active")) <= 1
    /\ CallsOf("detach_kernel_driver") = {} => driver \in { {}, Interfaces }

C16_Witness ==
    /\ ctor = "done" /\ ctorRet = CtorOk
    /\ ctorLog[Len(ctorLog)] = Called("attach_kernel_driver", 2, "ok")
    /\ driver = Interfaces
    /\ endpoint_in.iface = 0

----------------------------------------------------------------------------
\* the kind a failure belongs to: no device list, no device with the ids
\* and a device that does not open all count as device-not-found, and a
\* failed payload read as read-exhausted
KindOf(failure) ==
    CASE failure \in { "devices", "open" } -> "device-not-found"
      [] failure = "read-failed" -> "read-exhausted"
      [] OTHER -> failure

(* C12: the error value a failed construction hands to the caller tells    *)
(* the kind of the failure: it is the value of no failure of another kind  *)
(* (device-not-found, no-transport, endpoint-configuration-failed,         *)
(* write-failed, read-exhausted).                                          *)
C12_DistinctErrors ==
    (ctor = "done" /\ ctorRet # CtorOk) =>
        \A f \in Failures :
            KindOf(f) # KindOf(ctorRet.why) => ErrorOf(f) # ctorRet.err

----------------------------------------------------------------------------
(* C13: no step of a get_memory call, successful or failed, changes the    *)
(* input endpoint, the output endpoint or the handle of the facade, and    *)
(* every transfer issued is on that handle and addressed to the facade's   *)
(* input endpoint address (drain and payload reads) or to its output       *)
(* endpoint address (the command write).                                   *)
C13_FacadeFixed ==
    [][/\ endpoint_in' = endpoint_in
       /\ endpoint_out' = endpoint_out
       /\ handle' = handle
       /\ \A x \in xfers' :
             /\ x.handle = handle
             /\ x.op \in { "drain", "read" } => x.ep = endpoint_in.address
             /\ x.op = "write" => x.ep = endpoint_out.address]_vars

C13_Witness ==
    /\ calls = 2 /\ pc = "returned" /\ ret = "Err"
    /\ { x.op : x \in xfers } = { "drain", "write", "read" }
    /\ endpoint_in.address = 130

----------------------------------------------------------------------------
\* the payload reads of the current call that failed
FailedReads == { i \in 1..Len(rdLens) : rdLens[i] = -1 }

(* C14: a failed payload read does not by itself end the call: while fewer *)
(* than 1000 payload reads of the call have failed, the call has not       *)
(* returned an error from the read loop, so that further reads can still   *)
(* deliver the requested bytes.                                            *)
C14_FailedReadDoesNotAbort ==
    (WriteOk /\ FailedReads # {} /\ Cardinality(FailedReads) < FailLimit) =>
        pc = "read_loop" \/ ret = "Ok"

----------------------------------------------------------------------------
(* C15: a failed drain read ends the drain as a zero-length read does: it  *)
(* is the last drain read of the call, the call goes on to the command     *)
(* write with no error returned, and can still return success; nowhere     *)
(* else is a failed read passed over: after a failed payload read the call *)
(* has returned an error, and an error is returned only after a failed     *)
(* write or a failed payload read.                                         *)
C15_DrainSwallowsFailure ==
    /\ \A i \in 1..Len(drLens) :
          drLens[i] = -1 =>
             /\ i = Len(drLens)
             /\ pc # "clear_read"
             /\ pc = "write_bulk" => ret = "none" /\ err = "none" /\ wrLog = << >>
             /\ pc \in { "read_loop", "returned", "panicked" } => Len(wrLog) = 1
    /\ FailedReads # {} => pc = "returned" /\ ret = "Err" /\ err # "none"
    /\ ret = "Err" =>
          \/ Len(wrLog) = 1 /\ ~wrLog[1].ok /\ rdLens = << >>
          \/ WriteOk /\ FailedReads = { Len(rdLens) }

C15_Witness ==
    /\ pc = "returned" /\ ret = "Ok"
    /\ drLens = << 64, -1 >>
    /\ rdLens = << 7 >>

----------------------------------------------------------------------------
(* C17: every get_memory call eventually returns, whatever the reads       *)
(* report: an iteration of the payload loop that does not leave the loop   *)
(* changes what the loop decides on, the remaining-byte counter or the     *)
(* failure counter, so that no outcome of a read, a zero-length one in     *)
(* particular, can be repeated for ever.                                   *)
C17_LoopAdvances ==
    [][(pc = "read_loop" /\ pc' = "read_loop") =>
          << size_count', fail_counts' >> # << size_count, fail_counts >>]_vars

----------------------------------------------------------------------------
\* the i32 sc is the u32 u minus n, for a natural n below 2^31
IsU32Minus(sc, u, n) ==
    IF u.hi < 32768
    THEN sc = (u.hi * Half + u.lo) - n
    ELSE /\ sc >= 0
         /\ LET over == (sc - MaxI32) + (n - 1) IN
            /\ over >= 0
            /\ u.hi = 32768 + (over \div Half)
            /\ u.lo = over % Half

(* C18: the remaining-byte counter of the read loop is `size` when the     *)
(* loop starts, for every u32 `size`, and is `size` minus the bytes        *)
(* received so far after every successful read, never wrapped and never    *)
(* of the wrong sign; so a call with size >= 2^31 goes on reading until    *)
(* it has received `size` bytes.                                           *)
C18_CounterExact ==
    /\ (WriteOk /\ pc \in { "read_loop", "returned" } /\ AllOk(rdLens)) =>
          IsU32Minus(size_count, size, Delivered)
    \* the subtraction never overflows
    /\ pc # "panicked"
    \* fewer than 2^31 bytes were received: the call has not returned success
    /\ (size.hi >= 32768 /\ Delivered <= MaxI32) => ret # "Ok"

(* C19: a call with size 0 issues no payload read: once the write has      *)
(* succeeded it returns success with an empty payload, and it does not     *)
(* fail for want of data from the device.                                  *)
C19_ZeroLengthNoRead ==
    (size = U32(0, 0) /\ WriteOk) =>
        /\ rdLens = << >>
        /\ ret # "Err"
        /\ pc = "returned" => ret = "Ok" /\ result = << >>

(* C20: every transfer a facade issues, in the drain, the write and the    *)
(* read loop, is of the transfer type of the endpoint pair it was built    *)
(* on: a facade built on an interrupt pair issues no bulk transfer.        *)
C20_TransferKindOfPair ==
    \A x \in xfers : x.call = kind

====
